---- MODULE Spec2Model ----
(***************************************************************************)
(* Model of the bag-bot decision-and-control loop: BotScheduler            *)
(* (services/bot_scheduler.py), BaggingStrategyEngine                      *)
(* (services/strategy_engine.py), RiskManager (services/risk_manager.py)   *)
(* and the session routes of routes/trading.py.                            *)
(*                                                                         *)
(* Units.  Money and token quantities are integers.  A signal's amount is  *)
(* kept in tenths of a unit (amount10), so that usdt * 0.2, bst * 0.3 and  *)
(* bst * 0.2 are exact.  Percentages are compared by cross-multiplication. *)
(* Dates are whole days.  Percent changes and spreads are in hundredths of *)
(* a percent.                                                              *)
(*                                                                         *)
(* Atomicity.  A thread switch is modelled at every blocking call (an      *)
(* exchange request, a database query or commit, an Event wait, a join);   *)
(* the Python statements between two blocking calls form one step.         *)
(* db.session.commit() is modelled as succeeding.                          *)
(***************************************************************************)
EXTENDS Integers, Sequences, FiniteSets, TLC

\* ------------------------------------------------------------------ bounds
MaxThreads == 2     \* Thread objects that exist at a time (an exited one is collected)
MaxLoops == 1       \* loop threads alive at a time
MaxCreated == 1     \* sessions created through POST /sessions
MaxSessions == 2    \* rows of the trading_sessions table
MaxOrders == 1      \* orders the exchange accepts
MaxDay == 1         \* last calendar day of the run (days are 0..MaxDay)
MaxForced == 1      \* orders the exchange accepts beyond MaxOrders in a route's forced execution

\* ------------------------------------------------------- program constants
max_daily_trades == 10
JoinTimeout == 10
ErrorBackoff == 60
DefaultCycleDays == 30
min_order_size == 10
max_order_size == 100
trading_interval_minutes == 15

Caller == 0
Threads == 1..MaxThreads
Procs == 0..MaxThreads
None == 0

Sentiments ==
    {"strong_bearish", "bearish", "strong_bullish", "bullish", "low_liquidity", "neutral"}

\* --------------------------------------------------------- pure functions

\* faulty variant: the strong rows ignore the volume
AnalyzeMarketSentimentNoVolume(price_change, volume, spread) ==
    IF price_change < -200 THEN "strong_bearish"
    ELSE IF price_change < -100 THEN "bearish"
    ELSE IF price_change > 200 THEN "strong_bullish"
    ELSE IF price_change > 100 THEN "bullish"
    ELSE IF spread > 100 THEN "low_liquidity"
    ELSE "neutral"

\* price_change and spread in hundredths of a percent
AnalyzeMarketSentiment(price_change, volume, spread) ==
    IF price_change < -200 /\ volume > 100000 THEN "strong_bearish"
    ELSE IF price_change < -100 THEN "bearish"
    ELSE IF price_change > 200 /\ volume > 100000 THEN "strong_bullish"
    ELSE IF price_change > 100 THEN "bullish"
    ELSE IF spread > 100 THEN "low_liquidity"
    ELSE "neutral"

Min(a, b) == IF a <= b THEN a ELSE b

HoldSignal(reason) == [action |-> "hold", amount10 |-> 0, reason |-> reason]

\* faulty variant: the buy amount is not capped by max_order_size
ApplyBaggingLogicNoCap(usdt_balance, bst_balance, current_price, market_sentiment, total_portfolio_value, initial_capital, minSize, maxSize) ==
    LET pos == total_portfolio_value > 0
        buyCond == /\ pos
                   /\ 10 * usdt_balance > 8 * total_portfolio_value
                   /\ market_sentiment \in {"bearish", "strong_bearish", "neutral"}
        lowCond == /\ (IF pos THEN 10 * usdt_balance < 3 * total_portfolio_value ELSE TRUE)
                   /\ bst_balance > 0
        bullCond == market_sentiment = "strong_bullish" /\ bst_balance > 0
        buy_amount10 == usdt_balance * 2
        current_bst_value == bst_balance * current_price
    IN  IF buyCond
        THEN IF buy_amount10 >= minSize * 10
             THEN [action |-> "buy", amount10 |-> buy_amount10, reason |-> "bagging"]
             ELSE HoldSignal("no_signal")
        ELSE IF lowCond
        THEN IF 10 * current_bst_value > initial_capital
             THEN [action |-> "sell", amount10 |-> bst_balance * 3, reason |-> "low_usdt"]
             ELSE HoldSignal("no_signal")
        ELSE IF bullCond
        THEN IF 10 * (total_portfolio_value - initial_capital) > initial_capital
             THEN [action |-> "sell", amount10 |-> bst_balance * 2, reason |-> "bullish"]
             ELSE HoldSignal("no_signal")
        ELSE HoldSignal("no_signal")

\* faulty variant: the strong-bullish profit taking is tried before the low-USDT
\* profit taking
ApplyBaggingLogicBullishFirst(usdt_balance, bst_balance, current_price, market_sentiment, total_portfolio_value, initial_capital, minSize, maxSize) ==
    LET pos == total_portfolio_value > 0
        buyCond == /\ pos
                   /\ 10 * usdt_balance > 8 * total_portfolio_value
                   /\ market_sentiment \in {"bearish", "strong_bearish", "neutral"}
        lowCond == /\ (IF pos THEN 10 * usdt_balance < 3 * total_portfolio_value ELSE TRUE)
                   /\ bst_balance > 0
        bullCond == market_sentiment = "strong_bullish" /\ bst_balance > 0
        buy_amount10 == Min(usdt_balance * 2, maxSize * 10)
        current_bst_value == bst_balance * current_price
    IN  IF buyCond
        THEN IF buy_amount10 >= minSize * 10
             THEN [action |-> "buy", amount10 |-> buy_amount10, reason |-> "bagging"]
             ELSE HoldSignal("no_signal")
        ELSE IF bullCond
        THEN IF 10 * (total_portfolio_value - initial_capital) > initial_capital
             THEN [action |-> "sell", amount10 |-> bst_balance * 2, reason |-> "bullish"]
             ELSE HoldSignal("no_signal")
        ELSE IF lowCond
        THEN IF 10 * current_bst_value > initial_capital
             THEN [action |-> "sell", amount10 |-> bst_balance * 3, reason |-> "low_usdt"]
             ELSE HoldSignal("no_signal")
        ELSE HoldSignal("no_signal")

\* _apply_bagging_logic.  usdt_percentage > 0.8 is 10*usdt > 8*total (total > 0),
\* and usdt_percentage is 0 when total_portfolio_value is 0.
ApplyBaggingLogic(usdt_balance, bst_balance, current_price, market_sentiment, total_portfolio_value, initial_capital, minSize, maxSize) ==
    LET pos == total_portfolio_value > 0
        buyCond == /\ pos
                   /\ 10 * usdt_balance > 8 * total_portfolio_value
                   /\ market_sentiment \in {"bearish", "strong_bearish", "neutral"}
        lowCond == /\ (IF pos THEN 10 * usdt_balance < 3 * total_portfolio_value ELSE TRUE)
                   /\ bst_balance > 0
        bullCond == market_sentiment = "strong_bullish" /\ bst_balance > 0
        buy_amount10 == Min(usdt_balance * 2, maxSize * 10)
        current_bst_value == bst_balance * current_price
    IN  IF buyCond
        THEN IF buy_amount10 >= minSize * 10
             THEN [action |-> "buy", amount10 |-> buy_amount10, reason |-> "bagging"]
             ELSE HoldSignal("no_signal")
        ELSE IF lowCond
        THEN IF 10 * current_bst_value > initial_capital
             THEN [action |-> "sell", amount10 |-> bst_balance * 3, reason |-> "low_usdt"]
             ELSE HoldSignal("no_signal")
        ELSE IF bullCond
        THEN IF 10 * (total_portfolio_value - initial_capital) > initial_capital
             THEN [action |-> "sell", amount10 |-> bst_balance * 2, reason |-> "bullish"]
             ELSE HoldSignal("no_signal")
        ELSE HoldSignal("no_signal")

\* faulty variant: the limit itself is still allowed
CheckDailyTradeLimitInclusive(todayCount) == todayCount <= max_daily_trades

\* RiskManager._check_daily_trade_limit: trades of the session dated today
CheckDailyTradeLimit(todayCount) == todayCount < max_daily_trades

\* faulty variant: the position-size limit is applied to sells as well
CheckPositionSizeLimitAnySide(signal, initial_capital) ==
    signal.amount10 <= initial_capital * 3

\* RiskManager._check_position_size_limit (max_position_size_percent = 0.3)
CheckPositionSizeLimit(signal, initial_capital) ==
    IF signal.action = "buy" THEN signal.amount10 <= initial_capital * 3 ELSE TRUE

\* RiskManager._check_drawdown_limit (max_drawdown_percent = 0.15); a zero
\* initial capital raises ZeroDivisionError, caught: False
CheckDrawdownLimit(current_capital, initial_capital) ==
    IF initial_capital = 0 THEN FALSE
    ELSE IF initial_capital > 0
         THEN (initial_capital - current_capital) * 100 <= 15 * initial_capital
         ELSE (initial_capital - current_capital) * 100 >= 15 * initial_capital

\* RiskManager._check_minimum_order_size: a sell is valued at 0.08 per token
CheckMinimumOrderSize(signal, minSize) ==
    IF signal.action = "buy" THEN signal.amount10 >= minSize * 10
    ELSE IF signal.action = "sell" THEN signal.amount10 * 8 >= minSize * 1000
    ELSE TRUE

\* RiskManager._check_maximum_order_size
CheckMaximumOrderSize(signal, maxSize) ==
    IF signal.action = "buy" THEN signal.amount10 <= maxSize * 10
    ELSE IF signal.action = "sell" THEN signal.amount10 * 8 <= maxSize * 1000
    ELSE TRUE

\* RiskManager.validate_trade
ValidateTrade(signal, configActive, todayCount, current_capital, initial_capital, minSize, maxSize) ==
    /\ configActive
    /\ CheckDailyTradeLimit(todayCount)
    /\ CheckPositionSizeLimit(signal, initial_capital)
    /\ CheckDrawdownLimit(current_capital, initial_capital)
    /\ CheckMinimumOrderSize(signal, minSize)
    /\ CheckMaximumOrderSize(signal, maxSize)

\* faulty variant: the drawdown rule fires on its boundary
EmergencyStopInclusive(current_capital, initial_capital, session_days, cycle_days, ntrades) ==
    IF 100 * current_capital <= 85 * initial_capital THEN <<TRUE, "drawdown">>
    ELSE IF 2 * session_days > 3 * cycle_days THEN <<TRUE, "duration">>
    ELSE IF ntrades > 50 /\ 100 * current_capital < 95 * initial_capital THEN <<TRUE, "churn">>
    ELSE <<FALSE, "">>

\* faulty variant: no rule on excessive trading
EmergencyStopNoChurn(current_capital, initial_capital, session_days, cycle_days, ntrades) ==
    IF 100 * current_capital < 85 * initial_capital THEN <<TRUE, "drawdown">>
    ELSE IF 2 * session_days > 3 * cycle_days THEN <<TRUE, "duration">>
    ELSE <<FALSE, "">>

\* RiskManager.should_emergency_stop on a readable session: the pair (should
\* stop, reason).  current < initial * 0.85 is 100*current < 85*initial.
EmergencyStop(current_capital, initial_capital, session_days, cycle_days, ntrades) ==
    IF 100 * current_capital < 85 * initial_capital THEN <<TRUE, "drawdown">>
    ELSE IF 2 * session_days > 3 * cycle_days THEN <<TRUE, "duration">>
    ELSE IF ntrades > 50 /\ 100 * current_capital < 95 * initial_capital THEN <<TRUE, "churn">>
    ELSE <<FALSE, "">>

\* the reason when should_emergency_stop answers stop, "" when it does not
EmergencyReason(current_capital, initial_capital, session_days, cycle_days, ntrades) ==
    LET r == EmergencyStop(current_capital, initial_capital, session_days, cycle_days, ntrades)
    IN  IF r[1] THEN r[2] ELSE ""

Max(a, b) == IF a >= b THEN a ELSE b

\* calculate_position_risk keeps its numbers as fractions: the denominator of
\* risk_score is initial_capital * (5 * session_days) * total_completed_trades,
\* with session_days at least 1 and a win rate of 0 without completed trades
RiskScoreDen(initial_capital, days, completed) ==
    initial_capital * (5 * Max(1, days)) * Max(1, completed)

\* the numerator of risk_score =
\* (drawdown * 40 + min(trade_frequency / 5, 1) * 30 + (1 - win_rate) * 30) * 100
RiskScoreNum(current_capital, initial_capital, ntrades, days, completed, profitable) ==
    LET d == 5 * Max(1, days)
        c == Max(1, completed)
        drawdownNum == Max(0, initial_capital - current_capital)
    IN  100 * (40 * drawdownNum * d * c
               + 30 * Min(ntrades, d) * initial_capital * c
               + 30 * (c - profitable) * initial_capital * d)

\* RiskManager._get_risk_level on the score num / den
GetRiskLevel(num, den) ==
    IF num < 20 * den THEN "LOW"
    ELSE IF num < 40 * den THEN "MODERATE"
    ELSE IF num < 60 * den THEN "HIGH"
    ELSE "CRITICAL"

\* calculate_position_risk: 'risk_score': min(100, risk_score) and
\* 'risk_level': _get_risk_level(risk_score)
CalculatePositionRisk(current_capital, initial_capital, ntrades, days, completed, profitable) ==
    LET num == RiskScoreNum(current_capital, initial_capital, ntrades, days, completed, profitable)
        den == RiskScoreDen(initial_capital, days, completed)
    IN  [score_num |-> Min(100 * den, num), score_den |-> den, risk_level |-> GetRiskLevel(num, den)]

\* BaggingStrategyEngine.check_cycle_completion on a bound session
CycleCompletion(today, start_date, cycle_days, current_capital, initial_capital) ==
    \/ today >= start_date + cycle_days
    \/ 100 * current_capital >= 95 * initial_capital

\* ------------------------------------------------------------------ state
VARIABLES
    is_running,     \* BotScheduler.is_running
    stop_event,     \* BotScheduler.stop_event is set
    thread,         \* BotScheduler.thread: None or the thread launched last
    engine,         \* BotScheduler.strategy_engine is not None
    engSession,     \* BotScheduler.strategy_engine.session: None or a session id
    config,         \* BotScheduler.config is not None
    cfgActive,      \* the database holds a BotConfig with is_active = True
    sessions,       \* the trading_sessions table, indexed by id
    trades,         \* the trades table, in insertion order
    usdt, bst,      \* total balances of the exchange account
    orders,         \* orders the exchange has accepted; also the last order id
    now,            \* the calendar day
    proc            \* position and locals of the API caller (0) and of each loop thread

vars == <<is_running, stop_event, thread, engine, engSession, config, cfgActive,
          sessions, trades, usdt, bst, orders, now, proc>>

schedVars == <<is_running, stop_event, thread, engine, config>>
dbVars == <<cfgActive, sessions, trades>>
exchVars == <<usdt, bst, orders>>

NoDate == -1
Statuses == {"active", "paused", "completed"}
\* (usdt, bst) totals of the account: capital kept, inside the band, drawn down
Accounts == { <<100, 0>>, <<90, 0>>, <<80, 1000>> }
InitialCapitals == {100}
RouteCycleDays == {1}
Prices == {1}
MinQtys == {1, 50}
\* (priceChangePercent, volume, bid, ask) of a ticker and order book, percent in hundredths
MarketCases ==
    { <<-150, 50000, 100, 100>>, <<250, 200000, 100, 100>> }

\* order_response.get('status', 'NEW'): the answer names no status, or a fill
OrderStatuses == {"NEW", "FILLED"}

NoSignal == HoldSignal("none")

Locals == [own |-> None, sent |-> "neutral", price |-> 0, signal |-> NoSignal,
           order |-> None, ostatus |-> "", traded |-> FALSE, complete |-> FALSE, caught |-> "",
           err |-> "", timeout |-> 0, resp |-> "none", args |-> <<>>, ret |-> "",
           force_execute |-> FALSE, forced |-> FALSE]

ProcRec(pc, op) == [pc |-> pc, op |-> op] @@ Locals

\* analyze_market_conditions: spread_percent = (ask - bid) / bid * 100, 0 without a bid
SpreadPercent(best_bid, best_ask) ==
    IF best_bid > 0 THEN ((best_ask - best_bid) * 10000) \div best_bid ELSE 0

Alive(t) == proc[t].pc \notin {"none", "exited"}
ActiveIds == {i \in 1..Len(sessions) : sessions[i].status = "active"}

\* TradingSession.query.filter_by(status='active').first(): None or the first row
FirstActive == IF ActiveIds = {} THEN None
               ELSE CHOOSE i \in ActiveIds : \A j \in ActiveIds : i <= j

NewSession(initial_capital, cycle_days) ==
    [status |-> "active", initial_capital |-> initial_capital,
     current_capital |-> initial_capital, accumulated_tokens |-> 0,
     start_date |-> now, end_date |-> NoDate, cycle_duration_days |-> cycle_days]

TradesOf(s) == {k \in 1..Len(trades) : trades[k].session_id = s}
TodayCount(s) == Cardinality({k \in TradesOf(s) : trades[k].day = now})

Init ==
    /\ is_running = FALSE
    /\ stop_event = FALSE
    /\ thread = None
    /\ engine = FALSE
    /\ engSession = None
    /\ config = FALSE
    /\ cfgActive \in BOOLEAN
    /\ sessions = <<>>
    /\ trades = <<>>
    /\ \E a \in Accounts : usdt = a[1] /\ bst = a[2]
    /\ orders = 0
    /\ now = 0
    /\ proc = [p \in Procs |-> IF p = Caller THEN ProcRec("idle", "none")
                                ELSE ProcRec("none", "loop")]

\* n trades the session s made before the run, on orders of that time
EarlierTrades(s, n) ==
    [k \in 1..n |-> [session_id |-> s, order_id |-> -k, side |-> "BUY", status |-> "FILLED", day |-> 0]]

\* the numbers of earlier trades a run starts with: none, the most
\* should_emergency_stop lets pass, one more
BandTradeCounts == {0, 50, 51}

\* the numbers of trades of today a run starts with: none, one below
\* max_daily_trades, max_daily_trades
DailyTradeCounts == {0, 9, 10}

\* the routes are served while the database holds an active session that has
\* traded today
InitRoute ==
    /\ is_running = FALSE
    /\ stop_event = FALSE
    /\ thread = None
    /\ engine = FALSE
    /\ engSession = None
    /\ config = FALSE
    /\ cfgActive \in BOOLEAN
    /\ now = 0
    /\ \E c \in InitialCapitals, d \in RouteCycleDays : sessions = <<NewSession(c, d)>>
    /\ \E n \in DailyTradeCounts : trades = EarlierTrades(1, n)
    /\ \E a \in Accounts : usdt = a[1] /\ bst = a[2]
    /\ orders = 0
    /\ proc = [p \in Procs |-> IF p = Caller THEN ProcRec("idle", "none")
                                ELSE ProcRec("none", "loop")]

\* the scheduler is constructed while the database holds an active session that
\* has traded before
InitBand ==
    /\ is_running = FALSE
    /\ stop_event = FALSE
    /\ thread = None
    /\ engine = FALSE
    /\ engSession = None
    /\ config = FALSE
    /\ cfgActive \in BOOLEAN
    /\ now = 0
    /\ \E c \in InitialCapitals, d \in RouteCycleDays : sessions = <<NewSession(c, d)>>
    /\ \E n \in BandTradeCounts : trades = EarlierTrades(1, n)
    /\ \E a \in Accounts : usdt = a[1] /\ bst = a[2]
    /\ orders = 0
    /\ proc = [p \in Procs |-> IF p = Caller THEN ProcRec("idle", "none")
                                ELSE ProcRec("none", "loop")]

Idle == proc[Caller].pc = "idle"

Done(op, resp) == [ProcRec("done", op) EXCEPT !.resp = resp]

\* --------------------------------------------------------- the environment

\* a day passes
Tick ==
    /\ now < MaxDay
    /\ now' = now + 1
    /\ UNCHANGED <<schedVars, engSession, dbVars, exchVars, proc>>

\* fills, deposits and withdrawals change the account's balances
ExchangeMove ==
    /\ \E a \in Accounts :
          /\ a # <<usdt, bst>>
          /\ usdt' = a[1]
          /\ bst' = a[2]
    /\ UNCHANGED <<schedVars, engSession, dbVars, orders, now, proc>>

\* ------------------------------------------------------ routes/trading.py

\* PUT /config/<id> (update_config) with an is_active field
UpdateConfig ==
    /\ Idle
    /\ cfgActive' = ~cfgActive
    /\ UNCHANGED <<schedVars, engSession, sessions, trades, exchVars, now, proc>>

\* POST /sessions (manage_sessions)
\* (with an active session the answer is an error and nothing changes)
CreateSession ==
    /\ Idle
    /\ FirstActive = None
    /\ Len(sessions) < MaxCreated
    /\ \E c \in InitialCapitals, d \in RouteCycleDays :
           sessions' = Append(sessions, NewSession(c, d))
    /\ UNCHANGED <<schedVars, engSession, cfgActive, trades, exchVars, now, proc>>

\* BaggingStrategyEngine.start_trading_session on an engine of the caller's
StartTradingSession ==
    /\ Idle
    /\ Len(sessions) < MaxSessions
    /\ \E c \in InitialCapitals :
           sessions' = Append(sessions, NewSession(c, DefaultCycleDays))
    /\ UNCHANGED <<schedVars, engSession, cfgActive, trades, exchVars, now, proc>>

\* PUT /sessions/<id> (manage_session) with a status field
UpdateSession ==
    /\ Idle
    /\ \E s \in 1..Len(sessions), st \in Statuses :
          /\ st # sessions[s].status
          /\ sessions' = [sessions EXCEPT ![s].status = st]
    /\ UNCHANGED <<schedVars, engSession, cfgActive, trades, exchVars, now, proc>>

\* the response is sent; the caller may issue the next request
Return ==
    /\ proc[Caller].pc = "done"
    /\ proc' = [proc EXCEPT ![Caller] = ProcRec("idle", "none")]
    /\ UNCHANGED <<schedVars, engSession, dbVars, exchVars, now>>

\* --------------------------------------------- services/bot_scheduler.py

\* the session the engine of p's cycle holds: the routes build an engine of their
\* own around the row they queried; the loop and force_cycle share the scheduler's
SessionOf(p) == IF proc[p].op \in {"complete_session", "execute_strategy"}
                THEN proc[p].own ELSE engSession

\* the thread is inside a pass of the loop (between the while test and the wait)
InPass(t) == proc[t].pc \notin {"none", "top", "wait", "backoff", "exited"}

\* faulty variant: an exception in a pass ends the loop thread
RaiseEndsLoop(r, why) ==
    IF r.op = "loop"
    THEN [ProcRec("exited", "loop") EXCEPT !.err = why]
    ELSE [r EXCEPT !.pc = "done", !.err = why, !.resp = "error"]

\* faulty variant: after an exception the loop waits the configured interval
RaiseWaitsInterval(r, why) ==
    IF r.op = "loop"
    THEN [ProcRec("wait", "loop") EXCEPT !.err = why,
                                         !.timeout = trading_interval_minutes * 60]
    ELSE [r EXCEPT !.pc = "done", !.err = why, !.resp = "error"]

\* an exception leaves run_strategy_cycle or complete_trading_cycle: the loop's
\* except clause waits ErrorBackoff, a route or force_cycle answers with the error
Raise(r, why) ==
    IF r.op = "loop"
    THEN [ProcRec("backoff", "loop") EXCEPT !.err = why, !.timeout = ErrorBackoff]
    ELSE [r EXCEPT !.pc = "done", !.err = why, !.resp = "error"]

\* the end of a pass without an exception: interval_seconds is read from
\* self.config, which a failed start() has set to None, and the loop waits
ToWait(r) ==
    IF config
    THEN [ProcRec("wait", "loop") EXCEPT !.timeout = trading_interval_minutes * 60,
                                         !.caught = r.caught]
    ELSE [ProcRec("backoff", "loop") EXCEPT !.err = "config", !.timeout = ErrorBackoff]

\* the slot of the Thread object start() creates
NextThread == CHOOSE t \in Threads : ~Alive(t) /\ \A u \in Threads : u < t => Alive(u)

\* BotScheduler.start, up to the construction of the engine; a run follows at
\* most maxLoops loop threads at a time
StartCallUpTo(maxLoops) ==
    /\ Idle
    /\ IF is_running
       THEN /\ proc' = [proc EXCEPT ![Caller] = Done("start", "false")]
            /\ UNCHANGED <<config, engine, engSession>>
       ELSE IF ~cfgActive
       THEN /\ config' = FALSE
            /\ proc' = [proc EXCEPT ![Caller] = Done("start", "false")]
            /\ UNCHANGED <<engine, engSession>>
       ELSE /\ Cardinality({t \in Threads : Alive(t)}) < maxLoops
            /\ config' = TRUE
            /\ engine' = TRUE
            /\ engSession' = None
            /\ proc' = [proc EXCEPT ![Caller] = ProcRec("start_load", "start")]
    /\ UNCHANGED <<is_running, stop_event, thread, dbVars, exchVars, now>>

StartCall == StartCallUpTo(MaxLoops)

\* start() while the thread of an earlier start() may still be alive
StartCallAgain == StartCallUpTo(MaxThreads)

\* BotScheduler.start, from load_active_session to the return
StartLaunch ==
    /\ proc[Caller].pc = "start_load"
    /\ engSession' = FirstActive
    /\ stop_event' = FALSE
    /\ thread' = NextThread
    /\ is_running' = TRUE
    /\ proc' = [proc EXCEPT ![Caller] = Done("start", "true"),
                            ![NextThread] = ProcRec("top", "loop")]
    /\ UNCHANGED <<engine, config, dbVars, exchVars, now>>

\* BotScheduler.stop, up to the join, with the outcome of the is_running test
StopCallWhen(running) ==
    /\ Idle
    /\ IF ~running
       THEN /\ proc' = [proc EXCEPT ![Caller] = Done("stop", "false")]
            /\ UNCHANGED <<is_running, stop_event>>
       ELSE /\ stop_event' = TRUE
            /\ IF thread # None /\ Alive(thread)
               THEN /\ proc' = [proc EXCEPT ![Caller] =
                                   [ProcRec("join", "stop") EXCEPT !.timeout = JoinTimeout]]
                    /\ UNCHANGED is_running
               ELSE /\ is_running' = FALSE
                    /\ proc' = [proc EXCEPT ![Caller] = Done("stop", "true")]
    /\ UNCHANGED <<thread, engine, engSession, config, dbVars, exchVars, now>>

\* faulty variant: stop() without the is_running test
StopCallUnguarded == StopCallWhen(TRUE)

StopCall == StopCallWhen(is_running)

\* thread.join(timeout=10) returns: the thread has exited, or the timeout has
\* expired while the thread is still inside a pass
StopJoin ==
    /\ proc[Caller].pc = "join"
    /\ ~Alive(thread) \/ InPass(thread)
    /\ is_running' = FALSE
    /\ proc' = [proc EXCEPT ![Caller] = Done("stop", "true")]
    /\ UNCHANGED <<stop_event, thread, engine, engSession, config, dbVars, exchVars, now>>

\* _run_scheduler: the while test, with its outcome, and, when it passes, the
\* session lookup
LoopTopWhen(t, stopped) ==
    /\ proc[t].pc = "top"
    /\ IF stopped
       THEN /\ proc' = [proc EXCEPT ![t] = ProcRec("exited", "loop")]
            /\ UNCHANGED engSession
       ELSE LET s == IF engSession = None THEN FirstActive ELSE engSession
            IN  /\ engSession' = s
                /\ proc' = [proc EXCEPT ![t] =
                              IF s # None THEN ProcRec("analyze", "loop")
                              ELSE ToWait(ProcRec("top", "loop"))]
    /\ UNCHANGED <<schedVars, dbVars, exchVars, now>>

\* faulty variant: a loop that never tests the stop signal
LoopTopForever(t) == LoopTopWhen(t, FALSE)

LoopTop(t) == LoopTopWhen(t, stop_event)

\* the timeout of the wait the thread is in runs out
TimerExpires(t) ==
    /\ proc[t].pc \in {"wait", "backoff"}
    /\ proc[t].timeout > 0
    /\ proc' = [proc EXCEPT ![t].timeout = 0]
    /\ UNCHANGED <<schedVars, engSession, dbVars, exchVars, now>>

\* stop_event.wait(timeout) returns: the event is set, or the timeout has expired
LoopWake(t) ==
    /\ proc[t].pc \in {"wait", "backoff"}
    /\ stop_event \/ proc[t].timeout = 0
    /\ proc' = [proc EXCEPT ![t] = ProcRec("top", "loop")]
    /\ UNCHANGED <<schedVars, engSession, dbVars, exchVars, now>>

\* faulty variant: force_cycle runs a cycle whether or not a session was found
ForceCycleUnchecked ==
    /\ Idle
    /\ IF ~engine
       THEN /\ proc' = [proc EXCEPT ![Caller] =
                           [Done("force_cycle", "error") EXCEPT !.err = "not_initialized"]]
            /\ UNCHANGED engSession
       ELSE LET s == IF engSession = None THEN FirstActive ELSE engSession
            IN  /\ engSession' = s
                /\ proc' = [proc EXCEPT ![Caller] = ProcRec("analyze", "force_cycle")]
    /\ UNCHANGED <<schedVars, dbVars, exchVars, now>>

\* BotScheduler.force_cycle, up to the call of run_strategy_cycle
ForceCycle ==
    /\ Idle
    /\ IF ~engine
       THEN /\ proc' = [proc EXCEPT ![Caller] =
                           [Done("force_cycle", "error") EXCEPT !.err = "not_initialized"]]
            /\ UNCHANGED engSession
       ELSE LET s == IF engSession = None THEN FirstActive ELSE engSession
            IN  /\ engSession' = s
                /\ proc' = [proc EXCEPT ![Caller] =
                              IF s # None THEN ProcRec("analyze", "force_cycle")
                              ELSE [Done("force_cycle", "error") EXCEPT !.err = "no_session"]]
    /\ UNCHANGED <<schedVars, dbVars, exchVars, now>>

\* ------------------------------------------- services/strategy_engine.py

InCycle(p) == proc[p].pc \in {"analyze", "signal", "risk", "exec", "record", "metrics"}

\* run_strategy_cycle: analyze_market_conditions.  The ticker request or the
\* order-book request fails, or both answer.
CycAnalyze(p) ==
    /\ proc[p].pc = "analyze"
    /\ \/ proc' = [proc EXCEPT ![p] = Raise(@, "ticker")]
       \/ proc' = [proc EXCEPT ![p] = Raise(@, "order_book")]
       \/ \E m \in MarketCases, pr \in Prices :
             proc' = [proc EXCEPT ![p].pc = "signal", ![p].price = pr,
                         ![p].sent = AnalyzeMarketSentiment(m[1], m[2], SpreadPercent(m[3], m[4]))]
    /\ UNCHANGED <<schedVars, engSession, dbVars, exchVars, now>>

\* generate_trading_signal: the signal for the balances read, hold when no
\* session is bound, hold when the balance request fails (the except clause)
GenerateTradingSignal(p, balancesOk) ==
    LET s == SessionOf(p) IN
    IF s = None THEN HoldSignal("no_session")
    ELSE IF ~balancesOk THEN HoldSignal("error")
    ELSE ApplyBaggingLogic(usdt, bst, proc[p].price, proc[p].sent,
                           usdt + bst * proc[p].price, sessions[s].initial_capital,
                           min_order_size, max_order_size)

CycSignal(p) ==
    /\ proc[p].pc = "signal"
    /\ \E ok \in BOOLEAN :
          LET sig == GenerateTradingSignal(p, ok) IN
          /\ ok \/ SessionOf(p) # None
          /\ proc' = [proc EXCEPT ![p].signal = sig,
                         ![p].caught = IF ok THEN "" ELSE "balance_signal",
                         ![p].pc = IF sig.action # "hold" THEN "risk" ELSE "metrics"]
    /\ UNCHANGED <<schedVars, engSession, dbVars, exchVars, now>>

\* risk_manager.validate_trade(signal, self.session); an unbound session makes
\* session.trades raise inside _check_daily_trade_limit, which answers False
RiskApproves(p) ==
    LET s == SessionOf(p) IN
    IF s = None THEN FALSE
    ELSE ValidateTrade(proc[p].signal, cfgActive, TodayCount(s),
                       sessions[s].current_capital, sessions[s].initial_capital,
                       min_order_size, max_order_size)

\* faulty variant: the signal is executed whatever validate_trade answers
CycRiskUngated(p) ==
    /\ proc[p].pc = "risk"
    /\ proc' = [proc EXCEPT ![p].pc = "exec"]
    /\ UNCHANGED <<schedVars, engSession, dbVars, exchVars, now>>

\* run_strategy_cycle: the risk gate
CycRisk(p) ==
    /\ proc[p].pc = "risk"
    /\ proc' = [proc EXCEPT ![p] =
                  IF RiskApproves(p) THEN [@ EXCEPT !.pc = "exec"]
                  ELSE [@ EXCEPT !.pc = "metrics", !.signal.action = "hold",
                                 !.signal.reason = "blocked"]]
    /\ UNCHANGED <<schedVars, engSession, dbVars, exchVars, now>>

\* _execute_buy_order / _execute_sell_order: quantity < min_qty, the buy quantity
\* being amount_usdt / price
BelowMinimum(signal, pr, min_qty) ==
    IF signal.action = "buy" THEN signal.amount10 < min_qty * 10 * pr
    ELSE signal.amount10 < min_qty * 10

\* the orders the exchange accepts in the run, for the caller of execute_trade
OrderCap(p) == IF proc[p].forced THEN MaxOrders + MaxForced ELSE MaxOrders

\* faulty variant: a quantity below the minimum lot is turned into a hold and the
\* cycle goes on
CycExecSilentHold(p) ==
    /\ proc[p].pc = "exec"
    /\ \/ /\ proc[p].signal.action = "buy"
          /\ proc' = [proc EXCEPT ![p] = Raise(@, "sizing")]
          /\ UNCHANGED orders
       \/ /\ proc' = [proc EXCEPT ![p] = Raise(@, "min_lot")]
          /\ UNCHANGED orders
       \/ /\ \E pr \in Prices, q \in MinQtys : BelowMinimum(proc[p].signal, pr, q)
          /\ proc' = [proc EXCEPT ![p].pc = "metrics", ![p].signal.action = "hold",
                                  ![p].signal.reason = "below_minimum"]
          /\ UNCHANGED orders
       \/ /\ \E pr \in Prices, q \in MinQtys : ~BelowMinimum(proc[p].signal, pr, q)
          /\ proc' = [proc EXCEPT ![p] = Raise(@, "place_order")]
          /\ UNCHANGED orders
       \/ /\ \E pr \in Prices, q \in MinQtys : ~BelowMinimum(proc[p].signal, pr, q)
          /\ orders < OrderCap(p)
          /\ orders' = orders + 1
          /\ \E st \in OrderStatuses :
                proc' = [proc EXCEPT ![p].pc = "record", ![p].order = orders + 1,
                                        ![p].ostatus = st]
    /\ UNCHANGED <<schedVars, engSession, dbVars, usdt, bst, now>>

\* execute_trade up to the exchange's answer to place_order: the sizing request
\* (buy only), the lot-size request or the order request fails, the quantity is
\* below the minimum lot, or the exchange accepts the order
CycExec(p) ==
    /\ proc[p].pc = "exec"
    /\ \/ /\ proc[p].signal.action = "buy"
          /\ proc' = [proc EXCEPT ![p] = Raise(@, "sizing")]
          /\ UNCHANGED orders
       \/ /\ proc' = [proc EXCEPT ![p] = Raise(@, "min_lot")]
          /\ UNCHANGED orders
       \/ /\ \E pr \in Prices, q \in MinQtys : BelowMinimum(proc[p].signal, pr, q)
          /\ proc' = [proc EXCEPT ![p] = Raise(@, "below_minimum")]
          /\ UNCHANGED orders
       \/ /\ \E pr \in Prices, q \in MinQtys : ~BelowMinimum(proc[p].signal, pr, q)
          /\ proc' = [proc EXCEPT ![p] = Raise(@, "place_order")]
          /\ UNCHANGED orders
       \/ /\ \E pr \in Prices, q \in MinQtys : ~BelowMinimum(proc[p].signal, pr, q)
          /\ orders < OrderCap(p)
          /\ orders' = orders + 1
          /\ \E st \in OrderStatuses :
                proc' = [proc EXCEPT ![p].pc = "record", ![p].order = orders + 1,
                                        ![p].ostatus = st]
    /\ UNCHANGED <<schedVars, engSession, dbVars, usdt, bst, now>>

\* where execute_trade returns the Trade to: run_strategy_cycle, which goes on to
\* the metrics, or the route's forced execution, which answers
AfterTrade(r) ==
    IF r.forced THEN [r EXCEPT !.pc = "done", !.resp = "ok"]
    ELSE [r EXCEPT !.pc = "metrics", !.traded = TRUE]

NewTrade(s, order_id, side, status) ==
    [session_id |-> s, order_id |-> order_id, side |-> side, status |-> status, day |-> now]

\* faulty variant: the trade is stored with a fixed status, not the answer's
CycRecordFixedStatus(p) ==
    /\ proc[p].pc = "record"
    /\ LET s == SessionOf(p) IN
       IF s = None
       THEN /\ proc' = [proc EXCEPT ![p] = Raise(@, "record")]
            /\ UNCHANGED trades
       ELSE /\ trades' = Append(trades, NewTrade(s, proc[p].order,
                                   IF proc[p].signal.action = "buy" THEN "BUY" ELSE "SELL",
                                   "NEW"))
            /\ proc' = [proc EXCEPT ![p] = AfterTrade(@)]
    /\ UNCHANGED <<schedVars, engSession, cfgActive, sessions, exchVars, now>>

\* execute_trade after place_order has answered: Trade(session_id=self.session.id,
\* ...) is added and committed; an unbound session raises AttributeError
CycRecord(p) ==
    /\ proc[p].pc = "record"
    /\ LET s == SessionOf(p) IN
       IF s = None
       THEN /\ proc' = [proc EXCEPT ![p] = Raise(@, "record")]
            /\ UNCHANGED trades
       ELSE /\ trades' = Append(trades, NewTrade(s, proc[p].order,
                                   IF proc[p].signal.action = "buy" THEN "BUY" ELSE "SELL",
                                   proc[p].ostatus))
            /\ proc' = [proc EXCEPT ![p] = AfterTrade(@)]
    /\ UNCHANGED <<schedVars, engSession, cfgActive, sessions, exchVars, now>>

\* update_session_metrics: nothing without a session; a failed balance request is
\* logged and swallowed
UpdateSessionMetrics(s, balancesOk) ==
    IF s = None \/ ~balancesOk THEN sessions
    ELSE [sessions EXCEPT ![s].current_capital = usdt, ![s].accumulated_tokens = bst]

\* check_cycle_completion on the rows ss
CheckCycleCompletion(s, ss) ==
    IF s = None THEN FALSE
    ELSE CycleCompletion(now, ss[s].start_date, ss[s].cycle_duration_days,
                         ss[s].current_capital, ss[s].initial_capital)

\* where the caller of run_strategy_cycle goes on with the result: the loop
\* finalizes a complete cycle and then evaluates the emergency stop, force_cycle
\* returns the result, and execute_strategy with force_execute calls
\* execute_trade on the result's signal unless it is a hold
AfterCycle(r) ==
    IF r.op = "loop"
    THEN [ProcRec(IF r.complete THEN "comp_metrics" ELSE "emergency", "loop")
             EXCEPT !.caught = r.caught]
    ELSE IF r.op = "execute_strategy" /\ r.force_execute /\ r.signal.action # "hold"
    THEN [r EXCEPT !.pc = "exec", !.forced = TRUE]
    ELSE [r EXCEPT !.pc = "done", !.resp = "ok"]

\* run_strategy_cycle: update_session_metrics, check_cycle_completion, return
CycMetrics(p) ==
    /\ proc[p].pc = "metrics"
    /\ \E ok \in BOOLEAN :
          LET s == SessionOf(p)
              ss == UpdateSessionMetrics(s, ok)
          IN  /\ ok \/ s # None
              /\ sessions' = ss
              /\ proc' = [proc EXCEPT ![p] =
                            AfterCycle([@ EXCEPT !.complete = CheckCycleCompletion(s, ss),
                                                 !.caught = IF ok THEN @ ELSE "balance_metrics"])]
    /\ UNCHANGED <<schedVars, engSession, cfgActive, trades, exchVars, now>>

\* complete_trading_cycle up to the price request: ValueError without a session,
\* else update_session_metrics
CompMetrics(p) ==
    /\ proc[p].pc = "comp_metrics"
    /\ LET s == SessionOf(p) IN
       IF s = None
       THEN /\ proc' = [proc EXCEPT ![p] = Raise(@, "no_session")]
            /\ UNCHANGED sessions
       ELSE \E ok \in BOOLEAN :
               /\ sessions' = UpdateSessionMetrics(s, ok)
               /\ proc' = [proc EXCEPT ![p].pc = "comp_price"]
    /\ UNCHANGED <<schedVars, engSession, cfgActive, trades, exchVars, now>>

\* faulty variant: the session is marked completed before the price is requested
CompPriceMarksFirst(p) ==
    /\ proc[p].pc = "comp_price"
    /\ LET s == SessionOf(p) IN
       \/ /\ s # None
          /\ proc' = [proc EXCEPT ![p] = Raise(@, "ticker_price")]
          /\ sessions' = [sessions EXCEPT ![s].status = "completed", ![s].end_date = now]
          /\ UNCHANGED engSession
       \/ /\ s = None
          /\ proc' = [proc EXCEPT ![p] = Raise(@, "no_session")]
          /\ UNCHANGED <<sessions, engSession>>
       \/ /\ s # None
          /\ sessions' = [sessions EXCEPT ![s].status = "completed", ![s].end_date = now]
          /\ IF proc[p].op = "loop"
             THEN /\ engSession' = None
                  /\ proc' = [proc EXCEPT ![p].pc = "emergency"]
             ELSE /\ UNCHANGED engSession
                  /\ proc' = [proc EXCEPT ![p].pc = "done", ![p].resp = "ok"]
    /\ UNCHANGED <<schedVars, cfgActive, trades, exchVars, now>>

\* complete_trading_cycle from the price request: it fails, or the session is
\* marked completed with its end date and committed and the report returned; the
\* loop then unbinds the session
CompPrice(p) ==
    /\ proc[p].pc = "comp_price"
    /\ LET s == SessionOf(p) IN
       \/ /\ proc' = [proc EXCEPT ![p] = Raise(@, "ticker_price")]
          /\ UNCHANGED <<sessions, engSession>>
       \/ /\ s = None
          /\ proc' = [proc EXCEPT ![p] = Raise(@, "no_session")]
          /\ UNCHANGED <<sessions, engSession>>
       \/ /\ s # None
          /\ sessions' = [sessions EXCEPT ![s].status = "completed", ![s].end_date = now]
          /\ IF proc[p].op = "loop"
             THEN /\ engSession' = None
                  /\ proc' = [proc EXCEPT ![p].pc = "emergency"]
             ELSE /\ UNCHANGED engSession
                  /\ proc' = [proc EXCEPT ![p].pc = "done", ![p].resp = "ok"]
    /\ UNCHANGED <<schedVars, cfgActive, trades, exchVars, now>>

\* RiskManager.should_emergency_stop(session): the reason, "" for no stop; any
\* internal error (no session to read) answers stop with a diagnostic reason
ShouldEmergencyStop(s) ==
    IF s = None THEN "error"
    ELSE EmergencyReason(sessions[s].current_capital, sessions[s].initial_capital,
                         now - sessions[s].start_date, sessions[s].cycle_duration_days,
                         Cardinality(TradesOf(s)))

\* _run_scheduler: the emergency-stop check after the cycle; on a stop the
\* session's status is set to 'paused' (AttributeError when none is bound)
LoopEmergency(t) ==
    /\ proc[t].pc = "emergency"
    /\ LET s == engSession
           reason == ShouldEmergencyStop(s)
       IN  IF reason = ""
           THEN /\ proc' = [proc EXCEPT ![t] = ToWait(@)]
                /\ UNCHANGED sessions
           ELSE IF s = None
           THEN /\ proc' = [proc EXCEPT ![t] = Raise(@, "pause_unbound")]
                /\ UNCHANGED sessions
           ELSE /\ sessions' = [sessions EXCEPT ![s].status = "paused"]
                /\ proc' = [proc EXCEPT ![t].pc = "pause_commit"]
    /\ UNCHANGED <<schedVars, engSession, cfgActive, trades, exchVars, now>>

\* faulty variant: the paused session stays bound
LoopPauseCommitKeeps(t) ==
    /\ proc[t].pc = "pause_commit"
    /\ proc' = [proc EXCEPT ![t] = ToWait(@)]
    /\ UNCHANGED <<schedVars, engSession, dbVars, exchVars, now>>

\* _run_scheduler: db.session.commit() of the pause, then the session is unbound
LoopPauseCommit(t) ==
    /\ proc[t].pc = "pause_commit"
    /\ engSession' = None
    /\ proc' = [proc EXCEPT ![t] = ToWait(@)]
    /\ UNCHANGED <<schedVars, dbVars, exchVars, now>>

\* POST /sessions/<id>/complete (complete_session), up to complete_trading_cycle
CompleteSession ==
    /\ Idle
    /\ \E s \in 1..Len(sessions) :
          /\ sessions[s].status = "active"
          /\ cfgActive
          /\ proc' = [proc EXCEPT ![Caller] =
                           [ProcRec("comp_metrics", "complete_session") EXCEPT !.own = s]]
    /\ UNCHANGED <<schedVars, engSession, dbVars, exchVars, now>>

\* POST /strategy/execute (execute_strategy), up to run_strategy_cycle on an
\* engine of the route's own around the first active session
ExecuteStrategy ==
    /\ Idle
    /\ IF ~cfgActive
       THEN proc' = [proc EXCEPT ![Caller] =
                       [Done("execute_strategy", "error") EXCEPT !.err = "no_config"]]
       ELSE IF FirstActive = None
       THEN proc' = [proc EXCEPT ![Caller] =
                       [Done("execute_strategy", "error") EXCEPT !.err = "no_session"]]
       ELSE \E f \in BOOLEAN :
               proc' = [proc EXCEPT ![Caller] =
                          [ProcRec("analyze", "execute_strategy")
                              EXCEPT !.own = FirstActive, !.force_execute = f]]
    /\ UNCHANGED <<schedVars, engSession, dbVars, exchVars, now>>

\* complete_trading_cycle called once more on the engine of a completion that has
\* returned its report: the engine still holds the session
CompleteAgain ==
    /\ proc[Caller].pc = "done"
    /\ proc[Caller].op = "complete_session"
    /\ proc[Caller].resp = "ok"
    /\ proc' = [proc EXCEPT ![Caller] =
                     [ProcRec("comp_metrics", "complete_session") EXCEPT !.own = proc[Caller].own]]
    /\ UNCHANGED <<schedVars, engSession, dbVars, exchVars, now>>

\* ------------------------------------------- the functions, called alone

\* (priceChangePercent, volume, spread_percent), percents in hundredths, on and
\* around every threshold of _analyze_market_sentiment
SentimentInputs ==
    {-210, -200, -150, -100, 0, 100, 150, 200, 210} \X {50000, 100000, 100001} \X {0, 100, 101}

\* (usdt, bst, price, initial_capital, min_order_size, max_order_size) of a call
\* of _apply_bagging_logic, with the sentiment
BaggingInputs ==
    {0, 40, 50, 75, 80, 400, 500, 1000} \X {0, 10, 20, 150} \X {1} \X {100} \X {10, 15} \X {75, 100}

\* the dates of a session's trades: a of them today (day 1), b the day before
TradeDays(a, b) == [k \in 1..(a + b) |-> IF k <= a THEN 1 ELSE 0]

DailyLimitInputs == {TradeDays(a, b) : a \in {0, 1, 8, 9, 10, 11}, b \in {0, 1, 2, 12}}

\* (current_capital, initial_capital, session days, cycle_duration_days, number
\* of trades) of the session given to should_emergency_stop
EmergencyInputs ==
    ({<<84, 100>>, <<85, 100>>, <<86, 100>>, <<94, 100>>, <<95, 100>>, <<100, 100>>, <<169, 200>>, <<170, 200>>, <<189, 200>>, <<190, 200>>}
        \X {<<0, 1>>, <<1, 1>>, <<2, 1>>, <<45, 30>>, <<46, 30>>}) \X {0, 50, 51}

\* (current_capital, initial_capital), (trades, session days), (completed trades,
\* of which sells) of the session given to calculate_position_risk
RiskInputs ==
    ({<<90, 100>>, <<100, 100>>, <<50, 100>>, <<110, 100>>}
        \X {<<0, 0>>, <<2, 1>>, <<10, 1>>, <<5, 2>>}) \X {<<0, 0>>, <<2, 1>>, <<2, 2>>, <<1, 0>>}

\* (action, amount in tenths) of the signal, is_active of the configuration, the
\* number of the session's trades dated today, (current_capital, initial_capital)
\* of the session given to validate_trade
ValidateInputs ==
    (({"buy"} \X {90, 100, 300, 310, 1000, 1010}) \cup ({"sell"} \X {1240, 1250, 12500, 12510}))
        \X BOOLEAN \X {0, 9, 10, 11} \X {<<100, 100>>, <<85, 100>>, <<84, 100>>, <<340, 400>>, <<339, 400>>, <<0, 0>>}

\* the caller is about to evaluate the function f on the arguments a
CalcProc(f, a) ==
    [p \in Procs |-> IF p = Caller THEN [ProcRec("call", f) EXCEPT !.args = a]
                      ELSE ProcRec("none", "loop")]

InitCalc ==
    /\ is_running = FALSE
    /\ stop_event = FALSE
    /\ thread = None
    /\ engine = FALSE
    /\ engSession = None
    /\ config = FALSE
    /\ cfgActive = TRUE
    /\ sessions = <<>>
    /\ trades = <<>>
    /\ usdt = 100
    /\ bst = 0
    /\ orders = 0
    /\ now = 1
    /\ \/ \E a \in SentimentInputs : proc = CalcProc("analyze_market_sentiment", a)
       \/ \E a \in BaggingInputs, st \in Sentiments :
             proc = [CalcProc("apply_bagging_logic", a) EXCEPT ![Caller].sent = st]
       \/ \E a \in DailyLimitInputs : proc = CalcProc("check_daily_trade_limit", a)
       \/ \E a \in EmergencyInputs :
             proc = CalcProc("should_emergency_stop",
                             <<a[1][1][1], a[1][1][2], a[1][2][1], a[1][2][2], a[2]>>)
       \/ \E a \in RiskInputs :
             proc = CalcProc("calculate_position_risk",
                             <<a[1][1][1], a[1][1][2], a[1][2][1], a[1][2][2], a[2][1], a[2][2]>>)
       \/ \E a \in ValidateInputs :
             proc = CalcProc("validate_trade",
                             <<a[1][1], a[1][2], a[2], a[3], a[4][1], a[4][2]>>)

\* the function f returns
Called(f) == proc[Caller].pc = "call" /\ proc[Caller].op = f

\* _analyze_market_sentiment(price_change, volume, spread)
CallAnalyzeMarketSentiment ==
    /\ Called("analyze_market_sentiment")
    /\ LET a == proc[Caller].args IN
       proc' = [proc EXCEPT ![Caller].pc = "done",
                            ![Caller].ret = AnalyzeMarketSentiment(a[1], a[2], a[3])]
    /\ UNCHANGED <<schedVars, engSession, dbVars, exchVars, now>>

\* _apply_bagging_logic on the balances, price and sentiment given, with
\* total_portfolio_value as generate_trading_signal computes it
CallApplyBaggingLogic ==
    /\ Called("apply_bagging_logic")
    /\ LET a == proc[Caller].args IN
       proc' = [proc EXCEPT ![Caller].pc = "done",
                            ![Caller].signal =
                                ApplyBaggingLogic(a[1], a[2], a[3], proc[Caller].sent,
                                                  a[1] + a[2] * a[3], a[4], a[5], a[6])]
    /\ UNCHANGED <<schedVars, engSession, dbVars, exchVars, now>>

\* _check_daily_trade_limit on a session whose trades carry the dates given
CallCheckDailyTradeLimit ==
    /\ Called("check_daily_trade_limit")
    /\ LET days == proc[Caller].args
           today_trades == {k \in 1..Len(days) : days[k] = now}
       IN  proc' = [proc EXCEPT ![Caller].pc = "done",
                                ![Caller].ret = CheckDailyTradeLimit(Cardinality(today_trades))]
    /\ UNCHANGED <<schedVars, engSession, dbVars, exchVars, now>>

\* should_emergency_stop on a session with the fields given
CallShouldEmergencyStop ==
    /\ Called("should_emergency_stop")
    /\ LET a == proc[Caller].args IN
       proc' = [proc EXCEPT ![Caller].pc = "done",
                            ![Caller].ret = EmergencyStop(a[1], a[2], a[3], a[4], a[5])]
    /\ UNCHANGED <<schedVars, engSession, dbVars, exchVars, now>>

\* calculate_position_risk on a session with the fields and trades given
CallCalculatePositionRisk ==
    /\ Called("calculate_position_risk")
    /\ LET a == proc[Caller].args IN
       proc' = [proc EXCEPT ![Caller].pc = "done",
                            ![Caller].ret = CalculatePositionRisk(a[1], a[2], a[3], a[4], a[5], a[6])]
    /\ UNCHANGED <<schedVars, engSession, dbVars, exchVars, now>>

\* ------------------------------------------------------- the specification

\* validate_trade(signal, session) under the configuration's order sizes
CallValidateTrade ==
    /\ Called("validate_trade")
    /\ LET a == proc[Caller].args
           signal == [action |-> a[1], amount10 |-> a[2], reason |-> "given"]
       IN  proc' = [proc EXCEPT ![Caller].pc = "done",
                                ![Caller].ret = ValidateTrade(signal, a[3], a[4], a[5], a[6],
                                                              min_order_size, max_order_size)]
    /\ UNCHANGED <<schedVars, engSession, dbVars, exchVars, now>>

LoopStep(t) ==
    \/ LoopTop(t)
    \/ CycAnalyze(t) \/ CycSignal(t) \/ CycRisk(t) \/ CycExec(t) \/ CycRecord(t)
    \/ CycMetrics(t)
    \/ CompMetrics(t) \/ CompPrice(t)
    \/ LoopEmergency(t) \/ LoopPauseCommit(t)
    \/ LoopWake(t)

\* the steps of run_strategy_cycle on the caller's thread (force_cycle)
CallerStep ==
    \/ CycAnalyze(Caller) \/ CycSignal(Caller) \/ CycRisk(Caller) \/ CycExec(Caller)
    \/ CycRecord(Caller) \/ CycMetrics(Caller)

Next ==
    \/ Tick
    \/ ExchangeMove
    \/ UpdateConfig
    \/ CreateSession
    \/ StartCall
    \/ StartLaunch
    \/ StopCall
    \/ StopJoin
    \/ ForceCycle
    \/ Return
    \/ \E t \in Threads : LoopStep(t)
    \/ \E t \in Threads : TimerExpires(t)
    \/ CallerStep

Spec == Init /\ [][Next]_vars

\* the scheduler under start() and stop() alone, without force_cycle
NextLoop ==
    \/ Tick
    \/ ExchangeMove
    \/ UpdateConfig
    \/ CreateSession
    \/ StartCall
    \/ StartLaunch
    \/ StopCall
    \/ StopJoin
    \/ Return
    \/ \E t \in Threads : LoopStep(t)
    \/ \E t \in Threads : TimerExpires(t)

\* every loop thread keeps being scheduled and every blocking call it makes returns;
\* nothing is assumed about the caller, the environment or the passing of time
FairSpec == Init /\ [][NextLoop]_vars /\ \A t \in Threads : WF_vars(LoopStep(t))

\* the scheduler under start() and stop() on a session that exists
NextBand ==
    \/ Tick
    \/ ExchangeMove
    \/ UpdateConfig
    \/ StartCall
    \/ StartLaunch
    \/ StopCall
    \/ StopJoin
    \/ Return
    \/ \E t \in Threads : LoopStep(t)
    \/ \E t \in Threads : TimerExpires(t)

SpecBand == InitBand /\ [][NextBand]_vars

\* the execute-strategy route on a session that exists
NextRoute ==
    \/ Tick
    \/ ExchangeMove
    \/ UpdateConfig
    \/ ExecuteStrategy
    \/ CallerStep
    \/ Return

SpecRoute == InitRoute /\ [][NextRoute]_vars

\* start() and stop() with as many loop threads alive as Thread objects exist:
\* a stop() whose join timed out leaves its thread alive for the next start()
NextRestart ==
    \/ CreateSession
    \/ StartCallAgain
    \/ StartLaunch
    \/ StopCall
    \/ StopJoin
    \/ Return
    \/ \E t \in Threads : LoopStep(t)
    \/ \E t \in Threads : TimerExpires(t)

SpecRestart == Init /\ [][NextRestart]_vars

\* the session store under the routes and the engine operations that write it
NextStore ==
    \/ Tick
    \/ ExchangeMove
    \/ UpdateConfig
    \/ CreateSession
    \/ StartTradingSession
    \/ UpdateSession
    \/ CompleteSession
    \/ CompleteAgain
    \/ CompMetrics(Caller)
    \/ CompPrice(Caller)
    \/ Return

SpecStore == Init /\ [][NextStore]_vars

\* the functions of the engine and of the risk manager, each called alone
NextCalc ==
    \/ CallAnalyzeMarketSentiment
    \/ CallApplyBaggingLogic
    \/ CallCheckDailyTradeLimit
    \/ CallShouldEmergencyStop
    \/ CallCalculatePositionRisk
    \/ CallValidateTrade

SpecCalc == InitCalc /\ [][NextCalc]_vars

\* ------------------------------------------------------------ properties

\* the caller's request op returns resp in this step
Returns(op, resp) ==
    /\ proc[Caller].pc # "done"
    /\ proc'[Caller].pc = "done"
    /\ proc'[Caller].op = op
    /\ proc'[Caller].resp = resp

\* the caller invokes op in this step
Invokes(op) == Idle /\ proc'[Caller].op = op

\* a loop thread is launched in this step
Launches == \E t \in Threads : ~Alive(t) /\ Alive(t)'

\* C1: a strategy cycle run by force_cycle and a strategy cycle run by the
\* scheduler loop never overlap in time.
C1_SingleFlight ==
    \A t \in Threads :
        ~(InCycle(t) /\ InCycle(Caller) /\ proc[Caller].op = "force_cycle")

\* C2: start() answers true only from the stopped state with an active
\* configuration, and then the scheduler is running with a loop thread launched;
\* called while running or without an active configuration it answers false and
\* launches nothing.  stop() called while not running answers false and changes
\* nothing; stop() answers true only from the running state and leaves the
\* scheduler stopped.  The running flag changes at no other step.
C2_StartStop ==
    [][ /\ (Invokes("start") /\ (is_running \/ ~cfgActive))
              => (Returns("start", "false") /\ ~Launches /\ is_running' = is_running)
        /\ Returns("start", "false") => (~Launches /\ is_running' = is_running)
        /\ Returns("start", "true")
              => (~is_running /\ is_running' /\ config /\ Launches
                    /\ thread' # None /\ proc'[thread'].pc = "top")
        /\ (Invokes("stop") /\ ~is_running)
              => (Returns("stop", "false")
                    /\ UNCHANGED <<schedVars, engSession, dbVars>>
                    /\ \A t \in Threads : proc'[t] = proc[t])
        /\ Returns("stop", "false") => (~is_running /\ UNCHANGED schedVars)
        /\ Returns("stop", "true") => (is_running /\ ~is_running')
        /\ (is_running' # is_running)
              => (Returns("start", "true") \/ Returns("stop", "true"))
      ]_vars

\* start() has answered false on a running scheduler, whose loop it left alone
C2_Witness ==
    /\ proc[Caller].pc = "done" /\ proc[Caller].op = "start"
    /\ proc[Caller].resp = "false"
    /\ is_running /\ thread # None /\ Alive(thread)

\* C3: stop() answers true only if the loop thread has exited; when the join
\* times out with the thread still alive the answer is not a clean stop.
C3_StopTrueMeansExited ==
    (proc[Caller].pc = "done" /\ proc[Caller].op = "stop" /\ proc[Caller].resp = "true")
        => (thread = None \/ ~Alive(thread))

CycleReturned(p) ==
    IF proc[p].op = "loop"
    THEN proc[p].pc \in {"comp_metrics", "comp_price", "emergency", "pause_commit", "wait"}
    ELSE proc[p].pc = "done" /\ proc[p].resp = "ok"

\* the exchange requests whose failure leaves run_strategy_cycle as an exception
AbortingFailures ==
    {"ticker", "order_book", "sizing", "min_lot", "place_order", "ticker_price"}

\* C6 (as stated): a failure of any exchange request of a strategy cycle, the
\* two balance requests included, aborts the cycle, so that no cycle that met
\* a failure returns a result.
C6_AnyFailureAborts ==
    \A p \in Procs : proc[p].caught # "" => ~CycleReturned(p)

\* C6 (amended): a failed ticker, order-book, sizing, lot-size or placement
\* request leaves the cycle as an exception: the loop is in the 60-second
\* backoff, force_cycle answers the error.  A failed balance request in signal
\* generation is caught there and the signal is a hold with an error reason; a
\* failed balance request in the metrics refresh is caught there; in both cases
\* the cycle goes on and no exception leaves it.
C6_FailureHandling ==
    \A p \in Procs :
        /\ proc[p].err \in AbortingFailures
              => IF proc[p].op = "loop"
                 THEN proc[p].pc = "backoff" /\ proc[p].timeout \in {0, ErrorBackoff}
                 ELSE proc[p].pc = "done" /\ proc[p].resp = "error"
        /\ (proc[p].caught = "balance_signal" /\ InCycle(p))
              => (proc[p].signal = HoldSignal("error") /\ proc[p].pc = "metrics")
        /\ proc[p].caught # "" => (proc[p].err = "" /\ proc[p].pc # "backoff")

\* a forced cycle has returned its result after a failed balance request, and
\* a loop thread is in the backoff after a failed ticker request
C6_Witness ==
    /\ proc[Caller].op = "force_cycle" /\ proc[Caller].pc = "done"
    /\ proc[Caller].resp = "ok" /\ proc[Caller].caught # ""
    /\ \E t \in Threads : proc[t].pc = "backoff" /\ proc[t].err = "ticker"

\* C7: when the emergency-stop check after a cycle answers stop for the bound
\* session, the loop sets that session's status to paused, commits, and unbinds
\* it from the engine; the scheduler stays running and the thread stays alive.
C7_EmergencyPause ==
    [][\A t \in Threads :
          /\ (proc[t].pc = "emergency" /\ engSession # None
                /\ ShouldEmergencyStop(engSession) # "")
                => (\/ proc'[t] = proc[t]
                    \/ /\ sessions'[engSession].status = "paused"
                       /\ proc'[t].pc = "pause_commit"
                       /\ engSession' = engSession
                       /\ is_running' = is_running)
          /\ (proc[t].pc = "pause_commit" /\ proc'[t] # proc[t])
                => (/\ engSession' = None
                    /\ sessions' = sessions
                    /\ proc'[t].pc \in {"wait", "backoff"}
                    /\ is_running' = is_running)
          /\ (proc[t].pc # "pause_commit" /\ proc'[t].pc = "pause_commit")
                => (proc[t].pc = "emergency" /\ ShouldEmergencyStop(engSession) # "")
      ]_vars

\* the loop waits for its next pass after an emergency pause: the session is
\* paused and unbound, the scheduler still runs
C7_Witness ==
    /\ is_running /\ engSession = None
    /\ \E t \in Threads : proc[t].pc = "wait" /\ proc[t].timeout > 0
    /\ \E s \in 1..Len(sessions) : sessions[s].status = "paused"

\* C8: the core never starts a strategy cycle on a paused session, in a loop
\* pass or in a force_cycle call, and the only status changes it makes are
\* active to paused and active to completed.
C8_PausedStaysPaused ==
    [][ /\ \A p \in Procs :
              (~InCycle(p) /\ InCycle(p)')
                 => (engSession' # None /\ sessions'[engSession'].status # "paused")
        /\ \A s \in 1..Len(sessions) :
              sessions'[s].status # sessions[s].status
                 => (sessions[s].status = "active"
                       /\ sessions'[s].status \in {"paused", "completed"})
      ]_vars

\* C9: at most one session is active at any time.
C9_OneActive == Cardinality(ActiveIds) <= 1

\* C10: a session carries an end date only if its status is completed.
C10_EndDateOnlyCompleted ==
    \A s \in 1..Len(sessions) :
        sessions[s].end_date # NoDate => sessions[s].status = "completed"

\* C11: a completion succeeds only on a session that is not yet completed: a
\* second completion of the same session, by the loop, by the completion route
\* or by another call of complete_trading_cycle on the engine that holds it,
\* ends in an error, with no second report and no second end date.
C11_SecondCompletionFails ==
    [][\A p \in Procs :
          (proc[p].pc = "comp_price" /\ proc'[p].pc \in {"done", "emergency"}
              /\ proc'[p].err = "" /\ SessionOf(p) # None)
             => (sessions[SessionOf(p)].status # "completed"
                   /\ sessions[SessionOf(p)].end_date = NoDate)
      ]_vars

\* C12: a buy or sell signal that validate_trade rejects is not executed: the
\* cycle goes straight to the metrics refresh with the signal turned into a hold
\* whose reason is the risk block, placing no order and recording no trade; trade
\* execution is entered only from an approved signal, an order is recorded only
\* after execution, and the blocked cycle returns its result without raising.
C12_RiskGate ==
    [][\A p \in Procs :
          /\ (proc[p].pc = "risk" /\ proc'[p] # proc[p] /\ ~RiskApproves(p))
                => (/\ proc'[p].pc = "metrics"
                    /\ proc'[p].signal.action = "hold"
                    /\ proc'[p].signal.reason = "blocked"
                    /\ proc'[p].err = ""
                    /\ UNCHANGED <<orders, trades>>)
          /\ (proc[p].pc # "exec" /\ proc'[p].pc = "exec")
                => (proc[p].pc = "risk" /\ RiskApproves(p)
                      /\ proc[p].signal.action \in {"buy", "sell"})
          /\ (proc[p].pc # "record" /\ proc'[p].pc = "record") => proc[p].pc = "exec"
          /\ (proc[p].pc = "metrics" /\ proc[p].signal.reason = "blocked"
                /\ proc'[p] # proc[p])
                => (proc'[p].err = "" /\ ~proc[p].traded /\ trades' = trades
                      /\ IF proc[p].op = "loop"
                         THEN proc'[p].pc \in {"comp_metrics", "emergency"}
                         ELSE proc'[p].pc = "done" /\ proc'[p].resp = "ok")
      ]_vars

\* a forced cycle has returned a hold blocked by risk management, with no order
\* placed and no trade stored
C12_Witness ==
    /\ proc[Caller].op = "force_cycle" /\ proc[Caller].pc = "done"
    /\ proc[Caller].resp = "ok"
    /\ proc[Caller].signal = [HoldSignal("blocked") EXCEPT !.amount10 = proc[Caller].signal.amount10]
    /\ proc[Caller].signal.amount10 > 0
    /\ orders = 0 /\ trades = <<>>

\* the quantity of the signal of p is below the minimum lot of some answer of
\* the exchange / meets the minimum lot of some answer
SomeLotAbove(p) == \E pr \in Prices, q \in MinQtys : BelowMinimum(proc[p].signal, pr, q)
SomeLotMet(p) == \E pr \in Prices, q \in MinQtys : ~BelowMinimum(proc[p].signal, pr, q)

\* the exception why has left the cycle of p: the loop is in its backoff, the
\* caller has the error as its answer
Propagated(r, why) ==
    /\ r.err = why
    /\ IF r.op = "loop" THEN r.pc = "backoff" ELSE r.pc = "done" /\ r.resp = "error"

\* C13: when the quantity to trade is below the exchange's minimum lot,
\* execute_trade places no order and records no trade and the failure leaves
\* run_strategy_cycle as an error; trade execution ends in an accepted order or
\* in an error, never in a normal result with a hold signal; an order is placed
\* only for a quantity that meets the minimum lot.
C13_BelowMinimumRaises ==
    [][\A p \in Procs :
          /\ (proc[p].pc = "exec" /\ proc'[p].err = "below_minimum")
                => (/\ SomeLotAbove(p)
                    /\ Propagated(proc'[p], "below_minimum")
                    /\ UNCHANGED <<orders, trades>>)
          /\ (proc[p].pc = "exec" /\ proc'[p] # proc[p])
                => (\/ proc'[p].pc = "record" /\ orders' = orders + 1 /\ SomeLotMet(p)
                    \/ proc'[p].err # "" /\ UNCHANGED <<orders, trades>>)
          /\ (proc[p].pc = "exec" /\ ~SomeLotMet(p)) => orders' = orders
          /\ (proc[p].pc = "exec" /\ SomeLotAbove(p))
                => ENABLED (CycExec(p) /\ proc'[p].err = "below_minimum")
      ]_vars

\* a forced cycle has ended in the error of a quantity below the minimum lot,
\* with no order placed and no trade stored
C13_Witness ==
    /\ Propagated(proc[Caller], "below_minimum")
    /\ proc[Caller].op = "force_cycle"
    /\ proc[Caller].signal.action \in {"buy", "sell"}
    /\ orders = 0 /\ trades = <<>>

\* C14: a trade is stored only for an order the exchange has accepted, by the
\* cycle that placed it, with the order id and the status of the exchange's
\* answer; a hold signal places no order and stores nothing; a failed sizing,
\* lot-size or placement request leaves the cycle as an error with the stored
\* trades unchanged.
C14_TradeOnlyForAcceptedOrder ==
    /\ [](\A k \in 1..Len(trades) :
             /\ trades[k].order_id \in 1..orders
             /\ trades[k].status \in OrderStatuses
             /\ \A j \in 1..Len(trades) : trades[j].order_id = trades[k].order_id => j = k)
    /\ [][/\ trades' # trades
              => \E p \in Procs :
                    /\ proc[p].pc = "record" /\ proc'[p].pc = "metrics"
                    /\ SessionOf(p) # None
                    /\ trades' = Append(trades,
                          [session_id |-> SessionOf(p), order_id |-> proc[p].order,
                           side |-> IF proc[p].signal.action = "buy" THEN "BUY" ELSE "SELL",
                           status |-> proc[p].ostatus, day |-> now])
          /\ \A p \in Procs :
                /\ (proc[p].pc # "record" /\ proc'[p].pc = "record")
                      => (/\ proc[p].pc = "exec"
                          /\ proc[p].signal.action \in {"buy", "sell"}
                          /\ orders' = orders + 1
                          /\ proc'[p].order = orders'
                          /\ proc'[p].ostatus \in OrderStatuses)
                /\ (proc[p].pc = "record" /\ proc'[p].pc = "record")
                      => (proc'[p].order = proc[p].order /\ proc'[p].ostatus = proc[p].ostatus)
                /\ (proc[p].pc = "exec" /\ proc'[p].err \in {"sizing", "min_lot", "place_order"})
                      => (/\ Propagated(proc'[p], proc'[p].err)
                          /\ UNCHANGED <<orders, trades>>)
                /\ (proc[p].pc = "signal" /\ proc'[p] # proc[p]
                      /\ proc'[p].signal.action = "hold")
                      => (proc'[p].pc = "metrics" /\ UNCHANGED <<orders, trades>>)
                /\ (orders' # orders /\ proc'[p] # proc[p]) => proc[p].pc = "exec"
       ]_vars

\* a trade is stored with the id of the accepted order and the fill status the
\* exchange answered
C14_Witness ==
    /\ Len(trades) = 1
    /\ trades[1].order_id = orders /\ orders = 1
    /\ trades[1].status = "FILLED"
    /\ \E p \in Procs : proc[p].traded

\* the rows of the sentiment table, in the order they are tried
SentimentRow(k, change, volume, spread) ==
    CASE k = 1 -> change < -200 /\ volume > 100000
      [] k = 2 -> change < -100
      [] k = 3 -> change > 200 /\ volume > 100000
      [] k = 4 -> change > 100
      [] k = 5 -> spread > 100
      [] k = 6 -> TRUE

SentimentNames ==
    <<"strong_bearish", "bearish", "strong_bullish", "bullish", "low_liquidity", "neutral">>

\* C15: the sentiment classifier answers the first row of the table that
\* matches, all comparisons strict; low_liquidity is answered only for a change
\* between -1.0 and 1.0.
C15_SentimentTable ==
    (proc[Caller].op = "analyze_market_sentiment" /\ proc[Caller].pc = "done")
       => LET a == proc[Caller].args
              first == CHOOSE k \in 1..6 :
                          /\ SentimentRow(k, a[1], a[2], a[3])
                          /\ \A j \in 1..(k - 1) : ~SentimentRow(j, a[1], a[2], a[3])
          IN  /\ proc[Caller].ret = SentimentNames[first]
              /\ proc[Caller].ret = "low_liquidity" => (a[1] >= -100 /\ a[1] <= 100)

\* a change of -2.1 percent on a volume of 50000 has been classified bearish
C15_Witness ==
    /\ proc[Caller].op = "analyze_market_sentiment" /\ proc[Caller].pc = "done"
    /\ proc[Caller].args = <<-210, 50000, 0>>
    /\ proc[Caller].ret = "bearish"

\* C16: with a quote share above 0.8 and a bearish, strong_bearish or neutral
\* sentiment the proposed buy amount is min(usdt * 0.2, max_order_size); the
\* signal is a buy of that amount exactly when the amount is at least
\* min_order_size, and a hold otherwise; every buy signal has an amount between
\* min_order_size and max_order_size.
C16_BuyRule ==
    (proc[Caller].op = "apply_bagging_logic" /\ proc[Caller].pc = "done")
       => LET a == proc[Caller].args
              total == a[1] + a[2] * a[3]
              amount10 == IF a[1] * 2 <= a[6] * 10 THEN a[1] * 2 ELSE a[6] * 10
              sig == proc[Caller].signal
          IN  /\ (total > 0 /\ 10 * a[1] > 8 * total
                    /\ proc[Caller].sent \in {"bearish", "strong_bearish", "neutral"})
                 => (/\ sig.action \in {"buy", "hold"}
                     /\ sig.action = "buy" <=> amount10 >= a[5] * 10
                     /\ sig.action = "buy" => sig.amount10 = amount10)
              /\ sig.action = "buy"
                 => (a[5] * 10 <= sig.amount10 /\ sig.amount10 <= a[6] * 10)

\* quote share above 0.8, bearish, usdt 1000, max 75, min 15: a buy of 75
C16_Witness ==
    /\ proc[Caller].op = "apply_bagging_logic" /\ proc[Caller].pc = "done"
    /\ proc[Caller].args = <<1000, 150, 1, 100, 15, 75>>
    /\ proc[Caller].sent = "bearish"
    /\ proc[Caller].signal.action = "buy" /\ proc[Caller].signal.amount10 = 750

\* the number of entries of the sequence days that equal d
CountOf(days, d) == Cardinality({k \in 1..Len(days) : days[k] = d})

\* C17: the daily limit is a strict less-than on the trades dated today: the
\* check passes with 9 or fewer of them and fails with 10 or more, whatever the
\* number of trades on other dates.
C17_DailyLimitStrict ==
    (proc[Caller].op = "check_daily_trade_limit" /\ proc[Caller].pc = "done")
       => LET n == CountOf(proc[Caller].args, now) IN
          /\ n <= 9 => proc[Caller].ret = TRUE
          /\ n >= 10 => proc[Caller].ret = FALSE

\* ten trades today: the check has failed although the session has no other
\* trade; nine today and twelve on the day before would have passed
C17_Witness ==
    /\ proc[Caller].op = "check_daily_trade_limit" /\ proc[Caller].pc = "done"
    /\ CountOf(proc[Caller].args, now) = 10
    /\ Len(proc[Caller].args) = 10
    /\ proc[Caller].ret = FALSE

\* C18: for a readable session should_emergency_stop answers true exactly when
\* current capital < 0.85 initial (strictly), or the elapsed whole days exceed
\* 1.5 cycle durations, or there are more than 50 trades with current capital
\* below 0.95 initial; the reason is empty exactly when the answer is false.
C18_EmergencyStopRule ==
    (proc[Caller].op = "should_emergency_stop" /\ proc[Caller].pc = "done")
       => LET a == proc[Caller].args
              r == proc[Caller].ret
          IN  /\ r[1] <=> (\/ 100 * a[1] < 85 * a[2]
                           \/ 2 * a[3] > 3 * a[4]
                           \/ a[5] > 50 /\ 100 * a[1] < 95 * a[2])
              /\ (r[2] = "") <=> ~r[1]
              /\ (100 * a[1] = 85 * a[2] /\ 2 * a[3] <= 3 * a[4] /\ a[5] <= 50) => ~r[1]

\* current capital exactly 0.85 initial, inside the planned duration, 50 trades:
\* no stop
C18_Witness ==
    /\ proc[Caller].op = "should_emergency_stop" /\ proc[Caller].pc = "done"
    /\ proc[Caller].args = <<85, 100, 1, 1, 50>>
    /\ proc[Caller].ret = <<FALSE, "">>

\* C19: the risk score is drawdown * 40 + min(frequency / 5, 1) * 30 +
\* (1 - win rate) * 30 with drawdown and win rate as fractions, so it lies
\* between 0 and 100, and the level is LOW below 20, MODERATE below 40, HIGH below
\* 60 and CRITICAL from 60 of that score; a drawdown of 0.10 with 2 trades a day
\* and a win rate of 0.5 scores 31, MODERATE.
C19_RiskScore ==
    (proc[Caller].op = "calculate_position_risk" /\ proc[Caller].pc = "done")
       => LET a == proc[Caller].args
              r == proc[Caller].ret
              d == 5 * (IF a[4] >= 1 THEN a[4] ELSE 1)
              c == IF a[5] >= 1 THEN a[5] ELSE 1
              den == a[2] * d * c
              num == 40 * (IF a[2] > a[1] THEN a[2] - a[1] ELSE 0) * d * c
                     + 30 * (IF a[3] <= d THEN a[3] ELSE d) * a[2] * c
                     + 30 * (c - a[6]) * a[2] * d
          IN  /\ r.score_num * den = num * r.score_den
              /\ r.risk_level = (IF num < 20 * den THEN "LOW"
                                 ELSE IF num < 40 * den THEN "MODERATE"
                                 ELSE IF num < 60 * den THEN "HIGH" ELSE "CRITICAL")
              /\ a = <<90, 100, 2, 1, 2, 1>>
                 => (r.score_num = 31 * r.score_den /\ r.risk_level = "MODERATE")

C21_CompletionPassNormal ==
    [][\A t \in Threads :
          /\ (proc[t].pc = "comp_price" /\ proc'[t].pc = "emergency")
                => /\ engSession # None /\ engSession' = None
                   /\ sessions'[engSession].status = "completed"
                   /\ sessions'[engSession].end_date = now
          /\ (proc[t].pc = "emergency" /\ engSession = None /\ config /\ proc'[t] # proc[t])
                => /\ proc'[t].pc = "wait"
                   /\ proc'[t].timeout = trading_interval_minutes * 60
                   /\ proc'[t].err = ""
                   /\ sessions' = sessions
      ]_vars

\* the rules of the flat first-match policy on the balances q (quote) and b
\* (base), the price pr, the sentiment and the initial capital ic, the portfolio
\* value being q + b * pr
FlatRule1(q, b, pr, sentiment) ==
    /\ q + b * pr > 0
    /\ 10 * q > 8 * (q + b * pr)
    /\ sentiment \in {"bearish", "strong_bearish", "neutral"}

FlatRule2Share(q, b, pr) ==
    /\ (q + b * pr > 0 => 10 * q < 3 * (q + b * pr))
    /\ b > 0

FlatRule2(q, b, pr, ic) == FlatRule2Share(q, b, pr) /\ 10 * b * pr > ic

FlatRule3(q, b, pr, sentiment, ic) ==
    /\ sentiment = "strong_bullish"
    /\ b > 0
    /\ 10 * (q + b * pr - ic) > ic

FlatPolicy(q, b, pr, sentiment, ic, minSize, maxSize) ==
    IF FlatRule1(q, b, pr, sentiment)
    THEN IF Min(2 * q, 10 * maxSize) >= 10 * minSize
         THEN [action |-> "buy", amount10 |-> Min(2 * q, 10 * maxSize), reason |-> "bagging"]
         ELSE HoldSignal("no_signal")
    ELSE IF FlatRule2(q, b, pr, ic)
    THEN [action |-> "sell", amount10 |-> 3 * b, reason |-> "low_usdt"]
    ELSE IF FlatRule3(q, b, pr, sentiment, ic)
    THEN [action |-> "sell", amount10 |-> 2 * b, reason |-> "bullish"]
    ELSE HoldSignal("no_signal")

\* C22: with an initial capital above 0, the signal of _apply_bagging_logic on
\* the balances, the price and the portfolio value generate_trading_signal
\* hands it is the signal of the flat first-match policy (buy rule, else 30%
\* sell, else 20% sell, else hold).  The code nests the base-value test and
\* the profit test inside its elif branches, so a failed inner test ends in
\* hold; an input that fails rule 2 on the base value alone and meets rule 3
\* would show the difference, and no input does: a quote share below 0.3 and
\* a portfolio above 110% of the initial capital put the base value above 77%
\* of the initial capital.
C22_FlatPolicy ==
    (proc[Caller].op = "apply_bagging_logic" /\ proc[Caller].pc = "done" /\ proc[Caller].args[4] > 0)
       => LET a == proc[Caller].args
              st == proc[Caller].sent
          IN  /\ proc[Caller].signal = FlatPolicy(a[1], a[2], a[3], st, a[4], a[5], a[6])
              /\ (FlatRule2Share(a[1], a[2], a[3]) /\ ~FlatRule2(a[1], a[2], a[3], a[4])
                     /\ FlatRule3(a[1], a[2], a[3], st, a[4]))
                    => (proc[Caller].signal.action = "sell" /\ proc[Caller].signal.amount10 = 2 * a[2])

\* rule 2 is not met, its share test failing, and rule 3 gives the 20% sell
C22_Witness ==
    /\ proc[Caller].op = "apply_bagging_logic" /\ proc[Caller].pc = "done"
    /\ LET a == proc[Caller].args IN
       /\ ~FlatRule1(a[1], a[2], a[3], proc[Caller].sent)
       /\ ~FlatRule2(a[1], a[2], a[3], a[4])
       /\ FlatRule3(a[1], a[2], a[3], proc[Caller].sent, a[4])
       /\ proc[Caller].signal = [action |-> "sell", amount10 |-> 2 * a[2], reason |-> "bullish"]

\* C23: validate_trade answers True exactly when the configuration is active,
\* the session has fewer than 10 trades dated today, a buy is at most 30% of
\* the initial capital (a sell passes whatever its size), the drawdown is at
\* most 15% (15% itself passes), and the order value, the USDT amount of a buy
\* or 0.08 per token of a sell, lies between min_order_size and max_order_size,
\* both ends included; a session whose initial capital is 0 makes the drawdown
\* computation fail and the answer is False.
C23_ValidateTrade ==
    (proc[Caller].op = "validate_trade" /\ proc[Caller].pc = "done")
       => LET a == proc[Caller].args
              buy == a[1] = "buy"
              value1000 == IF buy THEN 100 * a[2] ELSE 8 * a[2]
          IN  /\ proc[Caller].ret \in BOOLEAN
              /\ a[6] > 0 =>
                   (proc[Caller].ret <=>
                      /\ a[3]
                      /\ a[4] < 10
                      /\ (buy => 10 * a[2] <= 30 * a[6])
                      /\ 100 * (a[6] - a[5]) <= 15 * a[6]
                      /\ 1000 * min_order_size <= value1000
                      /\ value1000 <= 1000 * max_order_size)
              /\ a[6] = 0 => ~proc[Caller].ret

\* a sell of 125 tokens, worth the minimum order, is approved for a session
\* whose initial capital is 100 and whose drawdown is exactly 15%, with 9 trades
\* today
C23_Witness ==
    /\ proc[Caller].op = "validate_trade" /\ proc[Caller].pc = "done"
    /\ proc[Caller].args = <<"sell", 1250, TRUE, 9, 85, 100>>
    /\ proc[Caller].ret = TRUE

\* C24: should_emergency_stop never raises: on an internal error, a missing
\* session included, it answers stop with a reason; and whenever it answers
\* stop, the loop, which pauses the session on that answer, does pause it:
\* the session given is marked paused and the pass goes on to commit it.
C24_FailSafeStop ==
    [][\A t \in Threads :
          (proc[t].pc = "emergency" /\ proc'[t] # proc[t])
             => /\ engSession = None => ShouldEmergencyStop(engSession) # ""
                /\ ShouldEmergencyStop(engSession) # ""
                      => /\ engSession # None
                         /\ sessions'[engSession].status = "paused"
                         /\ proc'[t].pc = "pause_commit"
      ]_vars

\* the scheduler runs one loop thread at a time: start() is not called while the
\* thread of an earlier start() is still alive
SingleLoop == MaxLoops = 1

\* the completion of t's pass has failed on the price request
PriceFailed(t) == proc[t].pc = "backoff" /\ proc[t].err = "ticker_price"

\* C25: in a scheduler that runs one loop thread at a time (MaxLoops = 1), when
\* the price request of complete_trading_cycle fails, the error leaves
\* complete_trading_cycle and the step changes no session, so the session
\* is still active and without an end date; in the loop the session stays
\* bound through the backoff, and the next pass that is not stopped runs a cycle
\* on it again and goes on to the completion when that cycle reports it.
C25_CompletionPriceFailure ==
    /\ [](\A t \in Threads :
            (SingleLoop /\ PriceFailed(t))
                           => /\ engSession # None
                              /\ sessions[engSession].status = "active"
                              /\ sessions[engSession].end_date = NoDate)
    /\ [][SingleLoop => \A t \in Threads :
            /\ (proc[t].pc = "comp_price" /\ proc'[t].pc # "emergency" /\ proc'[t] # proc[t])
                  => /\ PriceFailed(t)'
                     /\ proc'[t].timeout = ErrorBackoff
                     /\ UNCHANGED <<sessions, engSession, trades>>
            /\ (PriceFailed(t) /\ proc'[t] # proc[t])
                  => (proc'[t].pc \in {"backoff", "top"} /\ engSession' = engSession)
            /\ (proc[t].pc = "top" /\ engSession # None /\ ~stop_event /\ proc'[t] # proc[t])
                  => (proc'[t].pc = "analyze" /\ engSession' = engSession)
            /\ (proc[t].pc = "metrics" /\ proc'[t] # proc[t]
                   /\ CheckCycleCompletion(engSession, sessions'))
                  => proc'[t].pc = "comp_metrics"
       ]_vars

\* the completion of a pass has failed on the price request: the loop is in its
\* backoff with the session bound, active and refreshed by the completion
C25_Witness ==
    \E t \in Threads :
        /\ PriceFailed(t)
        /\ engSession # None
        /\ sessions[engSession].status = "active"
        /\ sessions[engSession].current_capital = usdt
        /\ ~stop_event

\* C26: at most one loop thread is alive at any time, whatever start() and
\* stop() calls are made, a start() after a stop() whose join timed out included.
C26_OneLoop == Cardinality({t \in Threads : Alive(t)}) <= 1

\* the session s as recorded is inside the band: active, its capital from 85%
\* to below 95% of the initial capital, at most 50 trades
InBand(s) ==
    /\ sessions[s].status = "active"
    /\ 85 * sessions[s].initial_capital <= 100 * sessions[s].current_capital
    /\ 100 * sessions[s].current_capital < 95 * sessions[s].initial_capital
    /\ Cardinality(TradesOf(s)) <= 50

BeforeDeadline(s) == now < sessions[s].start_date + sessions[s].cycle_duration_days

\* the pass of t ends in this step, after its cycle has returned
PassEndsAfterCycle(t) ==
    /\ proc[t].pc \in {"comp_metrics", "comp_price", "emergency", "pause_commit"}
    /\ proc'[t].pc \in {"wait", "backoff"}

\* the pass of t ends in this step without an exception
PassEndsClean(t) ==
    /\ proc[t].pc \in {"emergency", "pause_commit"}
    /\ proc'[t].pc = "wait"

C28_DailyCap ==
    \A s \in 1..Len(sessions), d \in 0..MaxDay :
        Cardinality({k \in TradesOf(s) : trades[k].day = d}) <= max_daily_trades

\* C29: every order the exchange accepts in a strategy cycle is recorded as
\* exactly one Trade, owned by the session the engine held when the cycle
\* began, also when the loop unbinds the engine's session between the
\* acceptance of the order and the recording: the step of execute_trade that
\* follows the exchange's answer appends one Trade with the order's id, and
\* its session is the one the cycle began on.
C29_AcceptedOrderRecorded ==
    [][\A p \in Procs :
          (proc[p].pc = "record" /\ proc'[p] # proc[p])
             => /\ Len(trades') = Len(trades) + 1
                /\ trades'[Len(trades')].order_id = proc[p].order
                /\ trades'[Len(trades')].session_id \in 1..Len(sessions)
                /\ proc'[p].err = ""
      ]_vars

\* C30: one invocation of the execute-strategy route submits at most one order
\* for its signal, with or without force_execute: once the cycle of the
\* invocation has executed the signal, or the risk manager has blocked it, the
\* invocation places no order.
C30_OneOrderPerInvocation ==
    [][(/\ proc[Caller].op = "execute_strategy"
        /\ proc[Caller].traded \/ proc[Caller].signal.reason = "blocked")
          => orders' = orders
      ]_vars

====
